---- MODULE Spec2Model ----
(***************************************************************************)
(* Lab Data Logger: the ingestion pipeline and its control plane.          *)
(*                                                                         *)
(* Two control planes live in the repository and are modelled side by      *)
(* side (the variable `service` says which one a behaviour is about):      *)
(*   "RecorderService"  recorder.py, with Source (source.py) workers and   *)
(*                      a Sink (sinks.py) handed in through set_sink;      *)
(*   "Logger"           logger.py, with Puller workers and the Pusher it   *)
(*                      builds and starts in its constructor.              *)
(* The control plane is served by an rpyc ThreadedServer: one thread per   *)
(* connected caller, all sharing the one service object, with no lock.     *)
(* Every Source and Sink worker is an OS process of its own.               *)
(*                                                                         *)
(* Two further parts have a specification each: the content of one poll    *)
(* of a DataService, from get_data to the Point on the queue (DataSpec),   *)
(* and the ServiceManager with the DataService processes it starts         *)
(* (ManagerSpec).  IntervalSpec is the pipeline with callers that pass any *)
(* polling interval, Spec the one with callers that pass positive ones.    *)
(* FaultSpec is the pipeline with one client and DataServices that may     *)
(* leave a request unanswered, CallSpec one connect_source call followed   *)
(* from its positional arguments to the first pass of the worker loop.     *)
(* NetlocSpec follows one Netloc through its string form, the parsers and  *)
(* its use as a key of the registry.                                       *)
(***************************************************************************)
EXTENDS Integers, Sequences, FiniteSets, TLC

\* ------------------------------------------------------------------ bounds
\* Source objects constructed, Sink objects started by set_sink, batches
\* enqueued by all Sources together, callers connected at the same time,
\* and control-plane calls received, in one behaviour.
MaxSources == 2
MaxSinks == 2
MaxPulls == 2
NumCallers == 2
MaxCalls == 3
\* Processes started by the ServiceManager in one behaviour.
MaxServices == 3

\* --------------------------------------------------------------- constants
\* multiprocessing.Value("i", -1): a C int, 32 bits, two's complement
C_INT_MAX == 2147483647
C_INT_MIN == (0 - C_INT_MAX) - 1

Services == {"RecorderService", "Logger"}
Netlocs == {[host |-> "localhost", port |-> 18861],
            [host |-> "localhost", port |-> 18862]}
Callers == 1..NumCallers

\* "rq" is the queue the control plane creates in its constructor, "cq" the
\* class attribute Sink.queue that a Sink without a queue of its own falls
\* back on.
Queues == {"rq", "cq"}

\* the polling intervals a caller may pass to connect_source, in seconds;
\* the documented ones are positive
Intervals == {-1, 0, 1}
PositiveIntervals == {i \in Intervals : i > 0}

VARIABLES
    service,            \* which control plane this behaviour is about
    connected_sources,  \* the registry: a dict Netloc -> Source (by identity)
    sink,               \* self.sink / self.pusher: identity of a Sink, 0 = unset
    queue,              \* contents of the two queue objects
    sources,            \* every Source object constructed so far (index = identity)
    sinks,              \* every Sink object started so far (index = identity)
    threads,            \* the server thread of each connected caller
    calls,              \* number of control-plane calls received so far
    poll,               \* one poll of a DataService: its inputs and its reply
    call,               \* one connect_source call of a client, argument by argument
    nl,                 \* one Netloc: printed, parsed back and used as a dict key
    exposed_services,   \* the registry of the ServiceManager: a dict port -> Process
    procs,              \* every Process the ServiceManager has started
    manager,            \* the outcome of the latest call to the ServiceManager
    class_config,       \* the class attribute ConstNumberService.config
    instances           \* the DataService instance served by each Process

\* the state of a DataService and the worker polling it, and of one
\* connect_source call followed from the client to the worker
data_vars == <<poll, call, nl>>

\* the state of the ServiceManager process
manager_vars == <<exposed_services, procs, manager, class_config, instances>>

\* the state of the control plane, its workers and queues
recorder_vars == <<service, connected_sources, sink, queue, sources, sinks, threads, calls>>

vars == <<recorder_vars, data_vars, manager_vars>>

\* ------------------------------------------------------------- helpers
\* counter.value += 1 on a shared C int
IncCounter(c) == IF c = C_INT_MAX THEN C_INT_MIN ELSE c + 1

SrcIds == 1..Len(sources)
SinkIds == 1..Len(sinks)

\* the batches enqueued or about to be enqueued, over all Sources
RECURSIVE SumPulled(_)
SumPulled(i) ==
    IF i = 0 THEN 0
    ELSE SumPulled(i - 1) + sources[i].enqueued
                          + (IF sources[i].pc = "fetched" THEN 1 ELSE 0)
Pulled == SumPulled(Len(sources))

\* Process.is_alive(): started and not yet exited
Exited == {"exited", "crashed", "killed"}
SourceAlive(s) == sources[s].pc \notin Exited
SinkAlive(k) == sinks[k].pc \notin {"crashed"}

NoNetloc == [host |-> "", port |-> 0]

\* A server thread between two calls.  `raised` is the exception the last
\* call propagated to its caller ("none": it returned None), `log` the
\* record of level ERROR it logged, if any.
Idle(raised, log) == [pc |-> "idle", n |-> NoNetloc, s |-> 0,
                      raised |-> raised, log |-> log]

IdleThread == Idle("none", "none")

\* the handler of thread t returns None to the caller
Return(t, log) == [threads EXCEPT ![t] = Idle("none", log)]

\* Source.__init__: counter -1, stop_event clear, process not yet started.
\* pc is the place of the worker in _pull; `enqueued` counts its queue.put
\* calls (kept for the properties, the program does not store it).
NewSource(n, interval) ==
    [netloc |-> n, interval |-> interval, pc |-> "new", counter |-> -1,
     stop_event |-> FALSE, enqueued |-> 0]

\* A Sink whose write_process has just been started.  `data` is the batch
\* the worker holds; `persisted` counts the batches written without a fault
\* and `last` is the outcome of the latest write (both kept for the
\* properties, the program does not store them).
NewSink(kind, q) == [kind |-> kind, queue |-> q, pc |-> "start", counter |-> -1,
                     data |-> <<>>, persisted |-> 0, last |-> "none"]

\* ---------------------------------------------------------------- Init
\* RecorderService.__init__: an empty registry, a new queue, no sink.
\* Logger.__init__: the same, and a Pusher built on the queue and started.
InitRecorder ==
    /\ service \in Services
    /\ connected_sources = [n \in {} |-> 0]
    /\ queue = [q \in Queues |-> <<>>]
    /\ sources = <<>>
    /\ threads = [t \in Callers |-> IdleThread]
    /\ calls = 0
    /\ IF service = "Logger"
          THEN /\ sinks = <<NewSink("Pusher", "rq")>>
               /\ sink = 1
          ELSE /\ sinks = <<>>
               /\ sink = 0

\* no DataService is being polled
NoPoll == [api |-> "none", produced |-> <<>>, requested |-> {}, measurement |-> "",
           pc |-> "none", data |-> <<>>, raised |-> "none"]

\* no call is being followed
NoCall == [pc |-> "none", args |-> <<>>, source |-> <<>>, point |-> <<>>,
           raised |-> "none"]

\* no Netloc is being followed
NoNl == [pc |-> "none", n |-> <<>>, parser |-> "none", input |-> "none",
         text |-> <<>>, parsed |-> <<>>, key |-> "none"]

InitData == poll = NoPoll /\ call = NoCall /\ nl = NoNl

\* ServicePool.__init__ / ServiceManager.__init__: self.exposed_services = {}
\* ConstNumberService: config = {"a_number": 2, "another_number": 3}
ConstNumberService_config == [a_number |-> 2, another_number |-> 3]

InitManager ==
    /\ exposed_services = [p \in {} |-> 0]
    /\ procs = <<>>
    /\ manager = [raised |-> "none", log |-> "none"]
    /\ class_config = ConstNumberService_config
    /\ instances = <<>>

Init == InitRecorder /\ InitData /\ InitManager

\* variant: the membership test is missing
connect_source_unchecked(t, n, interval) ==
    /\ calls < MaxCalls
    /\ calls' = calls + 1
    /\ threads[t].pc = "idle"
    /\ Len(sources) < MaxSources
    /\ sources' = Append(sources, [NewSource(n, interval) EXCEPT !.pc = "start"])
    /\ threads' = [threads EXCEPT ![t] =
                     [pc |-> "register", n |-> n, s |-> Len(sources) + 1,
                      raised |-> "none", log |-> "none"]]
    /\ UNCHANGED <<data_vars, manager_vars>>
    /\ UNCHANGED <<service, connected_sources, sink, queue, sinks>>

\* ------------------------------------------------- control plane: connect
\* variant: a Source made earlier for the same Netloc is registered again
connect_source_reuse(t, n, interval) ==
    /\ calls < MaxCalls
    /\ calls' = calls + 1
    /\ threads[t].pc = "idle"
    /\ IF n \in DOMAIN connected_sources
          THEN /\ threads' = Return(t, "error: already connected")
               /\ UNCHANGED <<data_vars, manager_vars>>
               /\ UNCHANGED <<service, connected_sources, sink, queue, sources, sinks>>
          ELSE /\ Len(sources) < MaxSources
               /\ LET old == {s \in SrcIds : sources[s].netloc = n}
                  IN  IF old = {}
                         THEN /\ sources' = Append(sources,
                                     [NewSource(n, interval) EXCEPT !.pc = "start"])
                              /\ threads' = [threads EXCEPT ![t] =
                                     [pc |-> "register", n |-> n, s |-> Len(sources) + 1,
                                      raised |-> "none", log |-> "none"]]
                         ELSE /\ UNCHANGED sources
                              /\ threads' = [threads EXCEPT ![t] =
                                     [pc |-> "register", n |-> n, s |-> CHOOSE x \in old : TRUE,
                                      raised |-> "none", log |-> "none"]]
               /\ UNCHANGED <<data_vars, manager_vars>>
               /\ UNCHANGED <<service, connected_sources, sink, queue, sinks>>

\* RecorderService.connect_source, up to and including pull_process.start().
\* The membership test, the construction of the Source and the start of its
\* process touch nothing another thread can see except the new process.
connect_source(t, n, interval) ==
    /\ calls < MaxCalls
    /\ calls' = calls + 1
    /\ threads[t].pc = "idle"
    /\ IF n \in DOMAIN connected_sources
          THEN \* logger.error(f"{netloc} is already connected."); returns None
               /\ threads' = Return(t, "error: already connected")
               /\ UNCHANGED <<data_vars, manager_vars>>
               /\ UNCHANGED <<service, connected_sources, sink, queue, sources, sinks>>
          ELSE /\ Len(sources) < MaxSources
               /\ sources' = Append(sources, [NewSource(n, interval) EXCEPT !.pc = "start"])
               /\ threads' = [threads EXCEPT ![t] =
                                [pc |-> "register", n |-> n, s |-> Len(sources) + 1,
                                 raised |-> "none", log |-> "none"]]
               /\ UNCHANGED <<data_vars, manager_vars>>
               /\ UNCHANGED <<service, connected_sources, sink, queue, sinks>>

\* self.connected_sources[netloc] = source, then the handler returns
connect_source_register(t) ==
    /\ UNCHANGED calls
    /\ threads[t].pc = "register"
    /\ connected_sources' =
          [m \in DOMAIN connected_sources \cup {threads[t].n} |->
              IF m = threads[t].n THEN threads[t].s ELSE connected_sources[m]]
    /\ threads' = Return(t, "none")
    /\ UNCHANGED <<data_vars, manager_vars>>
    /\ UNCHANGED <<service, sink, queue, sources, sinks>>

\* variant: the KeyError of the lookup is not caught
remove_source_uncaught(t, n) ==
    /\ calls < MaxCalls
    /\ calls' = calls + 1
    /\ threads[t].pc = "idle"
    /\ IF n \notin DOMAIN connected_sources
          THEN /\ threads' = [threads EXCEPT ![t] = Idle("KeyError", "none")]
               /\ UNCHANGED <<data_vars, manager_vars>>
               /\ UNCHANGED <<service, connected_sources, sink, queue, sources, sinks>>
          ELSE /\ sources' = [sources EXCEPT ![connected_sources[n]].stop_event = TRUE]
               /\ threads' = [threads EXCEPT ![t] =
                                [pc |-> "join", n |-> n, s |-> connected_sources[n],
                                 raised |-> "none", log |-> "none"]]
               /\ UNCHANGED <<data_vars, manager_vars>>
               /\ UNCHANGED <<service, connected_sources, sink, queue, sinks>>

\* -------------------------------------------------- control plane: remove
\* RecorderService.remove_source: the lookup and stop_event.set()
remove_source(t, n) ==
    /\ calls < MaxCalls
    /\ calls' = calls + 1
    /\ threads[t].pc = "idle"
    /\ IF n \notin DOMAIN connected_sources
          THEN \* KeyError, caught: logger.error(f"No Puller pulling from {netloc}")
               /\ threads' = Return(t, "error: no puller")
               /\ UNCHANGED <<data_vars, manager_vars>>
               /\ UNCHANGED <<service, connected_sources, sink, queue, sources, sinks>>
          ELSE /\ sources' = [sources EXCEPT ![connected_sources[n]].stop_event = TRUE]
               /\ threads' = [threads EXCEPT ![t] =
                                [pc |-> "join", n |-> n, s |-> connected_sources[n],
                                 raised |-> "none", log |-> "none"]]
               /\ UNCHANGED <<data_vars, manager_vars>>
               /\ UNCHANGED <<service, connected_sources, sink, queue, sinks>>

\* variant: the signal is not sent
terminate_skipped(src) == src

\* pull_process.terminate(): SIGTERM, default disposition
terminate(src) == [src EXCEPT !.pc = "killed"]

\* variant: the entry of a worker that had to be terminated is kept
remove_source_finish_keep(t) ==
    LET s == threads[t].s
        n == threads[t].n
    IN  /\ threads[t].pc = "join"
        /\ UNCHANGED calls
        /\ IF SourceAlive(s)
              THEN /\ sources' = [sources EXCEPT ![s].pc = "killed"]
                   /\ connected_sources' = connected_sources
              ELSE /\ sources' = sources
                   /\ connected_sources' =
                        [m \in DOMAIN connected_sources \ {n} |-> connected_sources[m]]
        /\ threads' = Return(t, "none")
        /\ UNCHANGED <<data_vars, manager_vars>>
        /\ UNCHANGED <<service, sink, queue, sinks>>

\* variant: terminate() is called whether the worker is alive or not, and
\* the exit status it left is lost
remove_source_finish_kill(t) ==
    LET s == threads[t].s
        n == threads[t].n
    IN  /\ threads[t].pc = "join"
        /\ UNCHANGED calls
        /\ connected_sources' =
              [m \in DOMAIN connected_sources \ {n} |-> connected_sources[m]]
        /\ sources' = [sources EXCEPT ![s] = terminate(sources[s])]
        /\ threads' = Return(t, IF n \in DOMAIN connected_sources
                                   THEN "none" ELSE "error: no puller")
        /\ UNCHANGED <<data_vars, manager_vars>>
        /\ UNCHANGED <<service, sink, queue, sinks>>

\* variant: join() with no timeout, the handler waits for the worker to end
remove_source_finish_wait(t) ==
    LET n == threads[t].n
    IN  /\ threads[t].pc = "join"
        /\ ~SourceAlive(threads[t].s)
        /\ UNCHANGED calls
        /\ connected_sources' =
              [m \in DOMAIN connected_sources \ {n} |-> connected_sources[m]]
        /\ threads' = Return(t, IF n \in DOMAIN connected_sources
                                   THEN "none" ELSE "error: no puller")
        /\ UNCHANGED <<data_vars, manager_vars>>
        /\ UNCHANGED <<service, sink, queue, sources, sinks>>

\* join(JOIN_TIMEOUT) has returned (the process exited, or the timeout ran
\* out with the process in whatever state it had reached); terminate() if it
\* is still alive; log the exit code; del self.connected_sources[netloc]
\* (a KeyError raised by the del is caught by the same handler).
remove_source_finish(t) ==
    LET s == threads[t].s
        n == threads[t].n
        stopped == IF SourceAlive(s) THEN terminate(sources[s]) ELSE sources[s]
    IN  /\ threads[t].pc = "join"
        /\ UNCHANGED calls
        /\ IF n \in DOMAIN connected_sources
              THEN /\ connected_sources' =
                        [m \in DOMAIN connected_sources \ {n} |-> connected_sources[m]]
                   /\ sources' = [sources EXCEPT ![s] = stopped]
                   /\ threads' = Return(t, "none")
              ELSE /\ connected_sources' = connected_sources
                   /\ sources' = [sources EXCEPT ![s] = stopped]
                   /\ threads' = Return(t, "error: no puller")
        /\ UNCHANGED <<data_vars, manager_vars>>
        /\ UNCHANGED <<service, sink, queue, sinks>>

\* ------------------------------------------------ control plane: set_sink
\* RecorderService.set_sink(sink): self.sink = sink; sink.write_process.start().
\* The Sink is built by the caller: a VoidSink reads Sink.queue unless the
\* caller gave it another queue, an InfluxDBSink the queue passed to it.
set_sink(t, kind, q) ==
    /\ calls < MaxCalls
    /\ calls' = calls + 1
    /\ service = "RecorderService"
    /\ threads[t].pc = "idle"
    /\ Len(sinks) < MaxSinks
    /\ sinks' = Append(sinks, NewSink(kind, q))
    /\ sink' = Len(sinks) + 1
    /\ threads' = Return(t, "none")
    /\ UNCHANGED <<data_vars, manager_vars>>
    /\ UNCHANGED <<service, connected_sources, queue, sources>>

\* ------------------------------------------------ control plane: status
\* RecorderService.display_text and Logger.exposed_get_display_text build
\* the text from the sink and from one row for each item of the registry,
\* read through a dict iterator with no lock held.  The iterator remembers
\* the size the dict had when it was made and raises RuntimeError from
\* next() when the size differs, or when it finds an item after it has
\* yielded that many.

\* the Sources in the registry
RegistryValues == {connected_sources[n] : n \in DOMAIN connected_sources}

\* a thread inside the for loop: `used` is the size the iterator remembers,
\* `listed` the Sources it has a row for
Listing(used, listed) ==
    [pc |-> "status", n |-> NoNetloc, s |-> 0, raised |-> "none", log |-> "none",
     used |-> used, listed |-> listed]

\* the handler of thread t ends with exception e raised to the caller
RaiseTo(t, e) == [threads EXCEPT ![t] = Idle(e, "none")]

\* next() of the iterator followed by the body of the loop, in thread t.
\* The row of a Source reads puller.host and puller.port: a Puller of
\* logger.py has them, a Source of source.py has only netloc.
display_text_row(t, used, listed) ==
    IF Cardinality(DOMAIN connected_sources) # used
       THEN RaiseTo(t, "RuntimeError")
       ELSE IF Cardinality(listed) = used
               THEN IF listed = RegistryValues
                       THEN Return(t, "none")
                       ELSE RaiseTo(t, "RuntimeError")
               ELSE IF service = "RecorderService"
                       THEN RaiseTo(t, "AttributeError")
                       ELSE LET puller == CHOOSE x \in RegistryValues \ listed : TRUE
                            IN  [threads EXCEPT ![t] = Listing(used, listed \cup {puller})]

\* variant: building the text empties the queue
display_text_draining(t) ==
    /\ calls < MaxCalls
    /\ calls' = calls + 1
    /\ threads[t].pc = "idle"
    /\ threads' = Return(t, "none")
    /\ queue' = [q \in Queues |-> <<>>]
    /\ UNCHANGED <<data_vars, manager_vars>>
    /\ UNCHANGED <<service, connected_sources, sink, sources, sinks>>

\* the call, up to the end of the first pass of the loop: self.sink.counter
\* raises AttributeError while the RecorderService has no sink; the Logger
\* always has its pusher
display_text(t) ==
    /\ calls < MaxCalls
    /\ calls' = calls + 1
    /\ threads[t].pc = "idle"
    /\ threads' = IF sink = 0
                     THEN RaiseTo(t, "AttributeError")
                     ELSE display_text_row(t, Cardinality(DOMAIN connected_sources), {})
    /\ UNCHANGED <<data_vars, manager_vars>>
    /\ UNCHANGED <<service, connected_sources, sink, queue, sources, sinks>>

\* every later pass of the loop; other threads run between two passes
display_text_next(t) ==
    /\ UNCHANGED calls
    /\ threads[t].pc = "status"
    /\ threads' = display_text_row(t, threads[t].used, threads[t].listed)
    /\ UNCHANGED <<data_vars, manager_vars>>
    /\ UNCHANGED <<service, connected_sources, sink, queue, sources, sinks>>

\* ------------------------------------------------------- Source worker
ConnectOutcomes == {"ok", "ConnectionRefusedError", "other"}

\* variant: the worker goes on to its loop after a refused connection
pull_connect_goes_on(s, outcome) ==
    /\ sources[s].pc = "start"
    /\ sources' = [sources EXCEPT ![s] =
          CASE outcome = "ok" -> [@ EXCEPT !.pc = "connected"]
            [] outcome = "ConnectionRefusedError" -> [@ EXCEPT !.pc = "connected"]
            [] OTHER -> [@ EXCEPT !.pc = "crashed"]]
    /\ UNCHANGED <<data_vars, manager_vars>>
    /\ UNCHANGED <<service, connected_sources, sink, queue, sinks, threads, calls>>

\* Source._pull, the try block: rpyc.connect and the get_service_name() call
\* made for the log line.  Only ConnectionRefusedError is handled; any other
\* exception leaves the function, and the process, at once.
pull_connect(s, outcome) ==
    /\ sources[s].pc = "start"
    /\ sources' = [sources EXCEPT ![s] =
          CASE outcome = "ok" -> [@ EXCEPT !.pc = "connected"]
            [] outcome = "ConnectionRefusedError" ->
                  [@ EXCEPT !.stop_event = TRUE, !.pc = "exited"]
            [] OTHER -> [@ EXCEPT !.pc = "crashed"]]
    /\ UNCHANGED <<data_vars, manager_vars>>
    /\ UNCHANGED <<service, connected_sources, sink, queue, sinks, threads, calls>>

\* variant: the counter is left at -1 after the connection
pull_connected_skip(s) ==
    /\ sources[s].pc = "connected"
    /\ sources' = [sources EXCEPT ![s].pc = "loop"]
    /\ UNCHANGED <<data_vars, manager_vars>>
    /\ UNCHANGED <<service, connected_sources, sink, queue, sinks, threads, calls>>

\* else: counter.value += 1  # change from -1 to 0
pull_connected(s) ==
    /\ sources[s].pc = "connected"
    /\ sources' = [sources EXCEPT ![s] =
          [@ EXCEPT !.counter = IncCounter(@), !.pc = "loop"]]
    /\ UNCHANGED <<data_vars, manager_vars>>
    /\ UNCHANGED <<service, connected_sources, sink, queue, sinks, threads, calls>>

\* while not stop_event.is_set(): the loop leaves when the event is set
pull_exit(s) ==
    /\ sources[s].pc = "loop"
    /\ sources[s].stop_event
    /\ sources' = [sources EXCEPT ![s].pc = "exited"]
    /\ UNCHANGED <<data_vars, manager_vars>>
    /\ UNCHANGED <<service, connected_sources, sink, queue, sinks, threads, calls>>

GetDataOutcomes == {"data", "EOFError", "other"}

\* the same, and a DataService that never answers the request
FaultOutcomes == GetDataOutcomes \cup {"hang"}

\* variant: EOFError is swallowed and the worker goes on with the iteration
pull_get_data_goes_on(s, outcome) ==
    /\ sources[s].pc = "loop"
    /\ ~sources[s].stop_event
    /\ outcome = "data" => Pulled < MaxPulls
    /\ sources' = [sources EXCEPT ![s] =
          CASE outcome = "data" -> [@ EXCEPT !.pc = "fetched"]
            [] outcome = "EOFError" -> [@ EXCEPT !.pc = "fetched"]
            [] outcome = "hang" -> [@ EXCEPT !.pc = "hung"]
            [] OTHER -> [@ EXCEPT !.pc = "crashed"]]
    /\ UNCHANGED <<data_vars, manager_vars>>
    /\ UNCHANGED <<service, connected_sources, sink, queue, sinks, threads, calls>>

\* variant: the loop does not test the stop event
pull_get_data_unstoppable(s, outcome) ==
    /\ sources[s].pc = "loop"
    /\ outcome = "data" => Pulled < MaxPulls
    /\ sources' = [sources EXCEPT ![s] =
          CASE outcome = "data" -> [@ EXCEPT !.pc = "fetched"]
            [] outcome = "EOFError" -> [@ EXCEPT !.stop_event = TRUE]
            [] outcome = "hang" -> [@ EXCEPT !.pc = "hung"]
            [] OTHER -> [@ EXCEPT !.pc = "crashed"]]
    /\ UNCHANGED <<data_vars, manager_vars>>
    /\ UNCHANGED <<service, connected_sources, sink, queue, sinks, threads, calls>>

\* variant: the Sources are polled one after the other by one process, so
\* that a request left unanswered holds up every Source
pull_get_data_in_turn(s, outcome) ==
    /\ sources[s].pc = "loop"
    /\ ~sources[s].stop_event
    /\ outcome = "data" => Pulled < MaxPulls
    /\ sources' =
          CASE outcome = "data" -> [sources EXCEPT ![s].pc = "fetched"]
            [] outcome = "EOFError" -> [sources EXCEPT ![s].stop_event = TRUE]
            [] outcome = "hang" ->
                  [x \in SrcIds |->
                      IF SourceAlive(x) THEN [sources[x] EXCEPT !.pc = "hung"]
                                        ELSE sources[x]]
            [] OTHER -> [sources EXCEPT ![s].pc = "crashed"]
    /\ UNCHANGED <<data_vars, manager_vars>>
    /\ UNCHANGED <<service, connected_sources, sink, queue, sinks, threads, calls>>

\* data = service.root.get_data(fields=fields).  EOFError is handled by
\* setting the stop event; any other exception ends the process.  While the
\* DataService does not answer, the worker is blocked in the call ("hung")
\* and tests its stop event no more.
pull_get_data(s, outcome) ==
    /\ sources[s].pc = "loop"
    /\ ~sources[s].stop_event
    /\ outcome = "data" => Pulled < MaxPulls
    /\ sources' = [sources EXCEPT ![s] =
          CASE outcome = "data" -> [@ EXCEPT !.pc = "fetched"]
            [] outcome = "EOFError" -> [@ EXCEPT !.stop_event = TRUE]
            [] outcome = "hang" -> [@ EXCEPT !.pc = "hung"]
            [] OTHER -> [@ EXCEPT !.pc = "crashed"]]
    /\ UNCHANGED <<data_vars, manager_vars>>
    /\ UNCHANGED <<service, connected_sources, sink, queue, sinks, threads, calls>>

\* queue.put([data]): a batch is named by its Source and its rank
pull_put(s) ==
    /\ sources[s].pc = "fetched"
    /\ queue' = [queue EXCEPT !["rq"] = Append(@, <<s, sources[s].enqueued + 1>>)]
    /\ sources' = [sources EXCEPT ![s] =
          [@ EXCEPT !.enqueued = @ + 1, !.pc = "put"]]
    /\ UNCHANGED <<data_vars, manager_vars>>
    /\ UNCHANGED <<service, connected_sources, sink, sinks, threads, calls>>

\* variant: the counter is incremented before the put and after it
pull_count_twice(s) ==
    /\ sources[s].pc = "put"
    /\ sources' = [sources EXCEPT ![s] =
          [@ EXCEPT !.counter = IncCounter(IncCounter(@)),
                    !.pc = IF sources[s].interval < 0 THEN "crashed" ELSE "loop"]]
    /\ UNCHANGED <<data_vars, manager_vars>>
    /\ UNCHANGED <<service, connected_sources, sink, queue, sinks, threads, calls>>

\* variant: after the increment the worker puts again, with no sleep and
\* no new request
pull_count_no_sleep(s) ==
    /\ sources[s].pc = "put"
    /\ sources' = [sources EXCEPT ![s] =
          [@ EXCEPT !.counter = IncCounter(@), !.pc = "fetched"]]
    /\ UNCHANGED <<data_vars, manager_vars>>
    /\ UNCHANGED <<service, connected_sources, sink, queue, sinks, threads, calls>>

\* counter.value += 1; sleep(interval): the worker is back at the loop test
\* once the interval has passed.  time.sleep raises ValueError for a negative
\* length, which the loop does not handle.
pull_count(s) ==
    /\ sources[s].pc = "put"
    /\ sources' = [sources EXCEPT ![s] =
          [@ EXCEPT !.counter = IncCounter(@),
                    !.pc = IF sources[s].interval < 0 THEN "crashed" ELSE "loop"]]
    /\ UNCHANGED <<data_vars, manager_vars>>
    /\ UNCHANGED <<service, connected_sources, sink, queue, sinks, threads, calls>>

\* --------------------------------------------------------- Sink worker
\* The target of Sink.write_process is called with (queue, counter).
\* InfluxDBSink.write_points is a static method of three parameters
\* (queue, counter, influxdb_client): the call raises TypeError and the
\* process ends before the first statement.  VoidSink.write_points and
\* Pusher._push start with: counter.value += 1  # change from -1 to 0
write_start(k) ==
    /\ sinks[k].pc = "start"
    /\ sinks' = [sinks EXCEPT ![k] =
          IF @.kind = "InfluxDBSink"
             THEN [@ EXCEPT !.pc = "crashed"]
             ELSE [@ EXCEPT !.counter = IncCounter(@), !.pc = "get"]]
    /\ UNCHANGED <<data_vars, manager_vars>>
    /\ UNCHANGED <<service, connected_sources, sink, queue, sources, threads, calls>>

\* variant: the worker takes the batch that was put last
write_get_last(k) ==
    /\ sinks[k].pc = "get"
    /\ queue[sinks[k].queue] # <<>>
    /\ LET q == queue[sinks[k].queue]
       IN  /\ sinks' = [sinks EXCEPT ![k] =
                 [@ EXCEPT !.data = q[Len(q)], !.pc = "write"]]
           /\ queue' = [queue EXCEPT ![sinks[k].queue] = SubSeq(q, 1, Len(q) - 1)]
    /\ UNCHANGED <<data_vars, manager_vars>>
    /\ UNCHANGED <<service, connected_sources, sink, sources, threads, calls>>

\* data = queue.get(): blocks while the queue is empty
write_get_keep(k) ==
    /\ sinks[k].pc = "get"
    /\ queue[sinks[k].queue] # <<>>
    /\ sinks' = [sinks EXCEPT ![k] =
          [@ EXCEPT !.data = Head(queue[sinks[k].queue]), !.pc = "write"]]
    /\ UNCHANGED queue
    /\ UNCHANGED <<data_vars, manager_vars>>
    /\ UNCHANGED <<service, connected_sources, sink, sources, threads, calls>>

write_get(k) ==
    /\ sinks[k].pc = "get"
    /\ queue[sinks[k].queue] # <<>>
    /\ sinks' = [sinks EXCEPT ![k] =
          [@ EXCEPT !.data = Head(queue[sinks[k].queue]), !.pc = "write"]]
    /\ queue' = [queue EXCEPT ![sinks[k].queue] = Tail(@)]
    /\ UNCHANGED <<data_vars, manager_vars>>
    /\ UNCHANGED <<service, connected_sources, sink, sources, threads, calls>>

\* variant: InfluxDBClientError is not caught and ends the process
Pusher_push_uncaught(snk, outcome) ==
    IF outcome = "ok"
       THEN [snk EXCEPT !.counter = IncCounter(@), !.persisted = @ + 1,
                        !.last = outcome, !.data = <<>>, !.pc = "get"]
       ELSE [snk EXCEPT !.last = outcome, !.data = <<>>, !.pc = "crashed"]

\* Pusher._push: the counter is incremented after the try statement, whether
\* write_points raised InfluxDBClientError or not
Pusher_push(snk, outcome) ==
    [snk EXCEPT !.counter = IncCounter(@),
                !.persisted = IF outcome = "ok" THEN @ + 1 ELSE @,
                !.last = outcome, !.data = <<>>, !.pc = "get"]

\* VoidSink.write_points: nothing is written, the counter is incremented
VoidSink_write_points(snk) ==
    [snk EXCEPT !.counter = IncCounter(@), !.persisted = @ + 1,
                !.last = "ok", !.data = <<>>, !.pc = "get"]

WriteOutcomes(kind) ==
    IF kind = "Pusher" THEN {"ok", "InfluxDBClientError"} ELSE {"ok"}

\* variant: a batch whose write failed is put back on the queue
write_points_requeue(k, outcome) ==
    /\ sinks[k].pc = "write"
    /\ outcome \in WriteOutcomes(sinks[k].kind)
    /\ sinks' = [sinks EXCEPT ![k] =
          IF @.kind = "Pusher" THEN Pusher_push(@, outcome)
                               ELSE VoidSink_write_points(@)]
    /\ queue' = IF outcome = "ok" THEN queue
                ELSE [queue EXCEPT ![sinks[k].queue] = Append(@, sinks[k].data)]
    /\ UNCHANGED <<data_vars, manager_vars>>
    /\ UNCHANGED <<service, connected_sources, sink, sources, threads, calls>>

\* one pass of the body of `while True` after the get
write_points(k, outcome) ==
    /\ sinks[k].pc = "write"
    /\ outcome \in WriteOutcomes(sinks[k].kind)
    /\ sinks' = [sinks EXCEPT ![k] =
          IF @.kind = "Pusher" THEN Pusher_push(@, outcome)
                               ELSE VoidSink_write_points(@)]
    /\ UNCHANGED <<data_vars, manager_vars>>
    /\ UNCHANGED <<service, connected_sources, sink, queue, sources, threads, calls>>

\* ---------------------------------------------------------- DataService
\* Two generations of the DataService interface are in the repository, each
\* with the worker written against it:
\*   "services"       services.py LabDataService.exposed_get_data, called as
\*                    get_data(fields=fields) by Source._pull (source.py)
\*                    and by Puller._pull (logger.py);
\*   "services.base"  services/base.py LabDataService.get_data, called as
\*                    get_data(self.requested_fields) by
\*                    Puller.pull_continously (puller.py).
APIs == {"services", "services.base"}

\* names and values of the fields a DataService produces; the measurement
\* names a caller may pass (any str, the empty one included)
FieldNames == {"a", "b", "c"}
FieldValues == {1, 2}
Measurements == {"", "test"}

\* every dict field -> value over FieldNames
FieldsDicts == UNION {[K -> FieldValues] : K \in SUBSET FieldNames}

\* datetime.utcnow().strftime("%Y-%m-%dT%H:%M:%SZ")
utcnow == "2026-01-01T00:00:00Z"

\* the outcome of a call: a return value or an exception
Ok(v) == [raised |-> "none", value |-> v]
Raise(e) == [raised |-> e, value |-> <<>>]

\* d[k] = v on a dict
SetItem(d, k, v) == [x \in DOMAIN d \cup {k} |-> IF x = k THEN v ELSE d[x]]

\* services/base.py LabDataService.get_data; `produced` is what
\* _get_data_fields returned.  A list of requested fields is used only
\* through `in`, so it is modelled by the set of its elements.
get_data(produced, requested_fields) ==
    LET fields == produced
    IN  IF requested_fields # {}
           THEN [key \in {k \in DOMAIN fields : k \in requested_fields} |-> fields[key]]
           ELSE fields

\* services.py LabDataService.filter_fields: data["fields"][field] raises
\* KeyError for a field that is no key of data["fields"]
filter_fields(data, fields) ==
    IF fields # {}
       THEN IF \A field \in fields : field \in DOMAIN data["fields"]
               THEN Ok([data EXCEPT !["fields"] =
                           [field \in fields |-> data["fields"][field]]])
               ELSE Raise("KeyError")
       ELSE Ok(data)

\* services.py LabDataService.exposed_get_data with add_timestamp=True;
\* `produced` is what get_data_fields returned
exposed_get_data(produced, fields) ==
    LET data == [time |-> utcnow, fields |-> produced]
    IN  filter_fields(data, fields)

\* common.py Message
Message(measurement, time, tags, fields) ==
    [measurement |-> measurement, time |-> time, tags |-> tags, fields |-> fields]

\* a worker that is connected and about to poll
NewPoll(api, produced, requested, measurement) ==
    [api |-> api, produced |-> produced, requested |-> requested,
     measurement |-> measurement, pc |-> "loop", data |-> <<>>, raised |-> "none"]

\* the call of get_data in the worker loop.  An exception of the service
\* reaches the worker as an exception of the same type; the loop handles
\* only EOFError, so the worker process ends.
poll_get_data ==
    /\ poll.pc = "loop"
    /\ LET reply == IF poll.api = "services"
                       THEN exposed_get_data(poll.produced, poll.requested)
                       ELSE Ok(get_data(poll.produced, poll.requested))
       IN  poll' = IF reply.raised = "none"
                      THEN [poll EXCEPT !.pc = "got", !.data = reply.value]
                      ELSE [poll EXCEPT !.pc = "crashed", !.raised = reply.raised]
    /\ UNCHANGED <<recorder_vars, manager_vars, call, nl>>

\* Source._pull: data["measurement"] = measurement; queue.put([data])
Source_put(data, measurement) == <<SetItem(data, "measurement", measurement)>>

\* variant: the measurement name is stored in the fields dict as well
Puller_put_tagged(fields, measurement) ==
    Message(measurement, utcnow, <<>>, SetItem(fields, "measurement", measurement))

\* Puller.pull_continously: queue.put(Message(measurement, time, tags, fields))
Puller_put(fields, measurement) == Message(measurement, utcnow, <<>>, fields)

poll_put ==
    /\ poll.pc = "got"
    /\ queue' = [queue EXCEPT !["rq"] =
          Append(@, IF poll.api = "services"
                       THEN Source_put(poll.data, poll.measurement)
                       ELSE Puller_put(poll.data, poll.measurement))]
    /\ poll' = [poll EXCEPT !.pc = "put"]
    /\ UNCHANGED <<service, connected_sources, sink, sources, sinks, threads, calls>>
    /\ UNCHANGED <<manager_vars, call, nl>>

\* ------------------------------------------------------ a client's call
\* A client calls connect_source through rpyc with positional arguments,
\* as tests/connect_to_recorder_and_do_things.py does:
\*     connection.root.connect_source(service_netloc, 1.0, "test")
\* A Python value is written as its type and its repr.
PyValues == {[type |-> "float", repr |-> "1.0"], [type |-> "float", repr |-> "0.5"],
             [type |-> "int", repr |-> "2"],
             [type |-> "str", repr |-> "test"], [type |-> "str", repr |-> "m"]}

NewCall(args) == [NoCall EXCEPT !.pc = "called", !.args = args]

\* def connect_source(self, netloc, measurement, interval, fields=[])
connect_source_parameters == <<"netloc", "measurement", "interval">>

\* positional arguments are given to the parameters from left to right
Bind(parameters, args) ==
    [p \in {parameters[i] : i \in 1..Len(args)} |->
        args[CHOOSE i \in 1..Len(args) : parameters[i] = p]]

\* RecorderService.connect_source: Source(queue=self.queue, netloc=netloc,
\* measurement=measurement, interval=interval, fields=fields) and the start
\* of its process
call_connect_source ==
    /\ call.pc = "called"
    /\ call' = [call EXCEPT !.pc = "started",
                            !.source = Bind(connect_source_parameters, call.args)]
    /\ UNCHANGED <<recorder_vars, manager_vars, poll, nl>>

\* the first pass of the worker loop, up to queue.put([data])
call_put ==
    /\ call.pc = "started"
    /\ call' = [call EXCEPT !.pc = "put",
                            !.point = Source_put(<<>>, call.source.measurement)[1]]
    /\ UNCHANGED <<recorder_vars, manager_vars, poll, nl>>

\* sleep(interval): time.sleep takes a number and raises TypeError for
\* anything else; the loop handles EOFError only
call_sleep ==
    /\ call.pc = "put"
    /\ call' = IF call.source.interval.type \in {"float", "int"}
                  THEN [call EXCEPT !.pc = "loop"]
                  ELSE [call EXCEPT !.pc = "crashed", !.raised = "TypeError"]
    /\ UNCHANGED <<recorder_vars, manager_vars, poll, nl>>

\* -------------------------------------------------------------- Netloc
\* Two classes Netloc are in the repository:
\*   "common"  common.py: @dataclass(eq=True, frozen=True), fields host,
\*             port, with __str__ returning f"{host}:{port}";
\*   "netloc"  netloc.py: @dataclass, fields port, host = "localhost", no
\*             __str__ (str() is the repr) and, having eq without frozen,
\*             __hash__ = None.
\* recorder.py and source.py import the second, puller.py the first; both
\* parsers (utils.parse_netloc, netloc.create_netloc) return the second.
\* A string is written as the sequence of its pieces, ":" being a piece of
\* its own; a host name may hold colons.
NetlocClasses == {"common", "netloc"}
Hosts == {<<"localhost">>, <<"example.org">>, <<":", ":", "1">>}
PortNumbers == {18861, 18862}
Parsers == {"parse_netloc", "create_netloc"}

\* what is given to the parser: the string form of the Netloc, its port as
\* text, or its port as an int
Inputs == {"str", "port text", "port int"}

Netloc(cls, host, port) == [cls |-> cls, host |-> host, port |-> port]

\* str(n)
Netloc_str(n) ==
    IF n.cls = "common"
       THEN n.host \o <<":">> \o <<ToString(n.port)>>
       ELSE <<"Netloc(port=", ToString(n.port), ", host='">> \o n.host \o <<"')">>

\* dataclass __eq__: same class and equal fields
Netloc_eq(a, b) == a.cls = b.cls /\ a.host = b.host /\ a.port = b.port

\* hash(n), as taken by `netloc in self.connected_sources.keys()`
Netloc_hash(n) == IF n.cls = "common" THEN "ok" ELSE "TypeError"

\* text.split(":")
RECURSIVE split(_)
split(text) ==
    IF \A i \in 1..Len(text) : text[i] # ":"
       THEN <<text>>
       ELSE LET i == CHOOSE j \in 1..Len(text) :
                        text[j] = ":" /\ \A k \in 1..(j - 1) : text[k] # ":"
            IN  <<SubSeq(text, 1, i - 1)>> \o split(SubSeq(text, i + 1, Len(text)))

\* int(text): the number the text is the decimal form of, or ValueError
IsNumber(text) == \E p \in PortNumbers : text = <<ToString(p)>>
NumberOf(text) == CHOOSE p \in PortNumbers : text = <<ToString(p)>>

\* utils.parse_netloc(netloc)
parse_netloc(arg) ==
    IF arg.type # "str" THEN Raise("AttributeError")
    ELSE LET split_netloc == split(arg.text)
         IN  IF Len(split_netloc) = 2
                THEN IF IsNumber(split_netloc[2])
                        THEN Ok(Netloc("netloc", split_netloc[1], NumberOf(split_netloc[2])))
                        ELSE Raise("ValueError")
             ELSE IF Len(split_netloc) = 1
                THEN IF IsNumber(split_netloc[1])
                        THEN Ok(Netloc("netloc", <<"localhost">>, NumberOf(split_netloc[1])))
                        ELSE Raise("ValueError")
             ELSE Raise("ValueError")

\* netloc.create_netloc(netloc): host, port = netloc.split(":") needs
\* exactly two parts
create_netloc(arg) ==
    IF arg.type = "int" THEN Ok(Netloc("netloc", <<"localhost">>, arg.value))
    ELSE LET parts == split(arg.text)
         IN  IF Len(parts) = 2 /\ IsNumber(parts[2])
                THEN Ok(Netloc("netloc", parts[1], NumberOf(parts[2])))
                ELSE Raise("ValueError")

NewNl(n, parser, input) ==
    [NoNl EXCEPT !.pc = "new", !.n = n, !.parser = parser, !.input = input]

\* str(n)
netloc_str ==
    /\ nl.pc = "new"
    /\ nl' = [nl EXCEPT !.pc = "printed", !.text = Netloc_str(nl.n)]
    /\ UNCHANGED <<recorder_vars, manager_vars, poll, call>>

\* the parser applied to the input
netloc_parse ==
    /\ nl.pc = "printed"
    /\ LET arg == CASE nl.input = "str" -> [type |-> "str", text |-> nl.text]
                    [] nl.input = "port text" ->
                          [type |-> "str", text |-> <<ToString(nl.n.port)>>]
                    [] OTHER -> [type |-> "int", value |-> nl.n.port]
       IN  nl' = [nl EXCEPT !.pc = "parsed",
                            !.parsed = IF nl.parser = "parse_netloc"
                                          THEN parse_netloc(arg)
                                          ELSE create_netloc(arg)]
    /\ UNCHANGED <<recorder_vars, manager_vars, poll, call>>

\* the Netloc looked up in a dict, as connect_source does with the registry
netloc_key ==
    /\ nl.pc = "parsed"
    /\ nl' = [nl EXCEPT !.pc = "keyed", !.key = Netloc_hash(nl.n)]
    /\ UNCHANGED <<recorder_vars, manager_vars, poll, call>>

\* ------------------------------------------------------- ServiceManager
\* ServicePool (_pool.py), in its earlier form ServiceManager (services.py):
\* a registry port -> Process of DataServices it has started.  The port is
\* used as the dict key as the caller passed it, an int from Python code and
\* a str from the command line, and as int(port) for the socket.
Ports == {[type |-> "int", value |-> 18861], [type |-> "str", value |-> 18861],
          [type |-> "int", value |-> 18862]}

\* int(port)
int(port) == port.value

ProcIds == 1..Len(procs)

\* the TCP ports on which a process started by the manager is listening
Listening == {procs[i].port : i \in {j \in ProcIds : procs[j].pc = "alive"}}

\* What can happen once the port is found free: the service cannot be
\* loaded or constructed (an exception of get_service_instance or of
\* service(config)), the socket cannot be bound (OSError of ThreadedServer),
\* or the process is started and is_alive() is then True or False.
AddOutcomes == {"alive", "dead", "ImportError", "OSError"}

\* the config argument of add_service: nothing, or another a_number
Overrides == {<<>>, [a_number |-> 5]}

\* dict.update: the items of u are set in d
dict_update(d, u) ==
    [k \in DOMAIN d \cup DOMAIN u |-> IF k \in DOMAIN u THEN u[k] ELSE d[k]]

\* LabDataService.__init__(self, config).  self.config is found on the class
\* as long as the instance has no attribute of that name, so
\*     self.config.update(config)
\* updates the dict of the class; self.config = copy.deepcopy(self.config)
\* then gives the instance a dict of its own with the same items.
\* cls: the class attribute after the call, self: the instance attribute.
LabDataService_init(cls_config, config) ==
    [cls |-> dict_update(cls_config, config),
     self |-> dict_update(cls_config, config)]

\* the handler ends: `raised` is the exception passed to the caller
\* ("none": it returned None), `log` the record of level ERROR it logged
Returned(raised, log) == [raised |-> raised, log |-> log]

\* variant: the membership test is missing
exposed_add_service_unchecked(port, outcome) ==
    /\ Len(procs) < MaxServices
    /\ outcome \in {"alive", "dead"}
    /\ procs' = Append(procs, [port |-> int(port),
                               pc |-> IF outcome = "alive" THEN "alive" ELSE "exited"])
    /\ exposed_services' =
          [k \in DOMAIN exposed_services \cup {port} |->
              IF k = port THEN Len(procs) + 1 ELSE exposed_services[k]]
    /\ manager' = Returned("none", "none")
    /\ \E config \in Overrides :
          LET made == LabDataService_init(class_config, config)
          IN  /\ class_config' = made.cls
              /\ instances' = Append(instances, [overrides |-> config,
                                                 config |-> made.self])
    /\ UNCHANGED <<recorder_vars, data_vars>>

\* ServicePool.exposed_add_service.  service(config) is evaluated in the
\* process of the manager, before the socket is bound and the Process made.
exposed_add_service(port, outcome) ==
    /\ IF port \in DOMAIN exposed_services
          THEN \* debug_logger.error(f"Port {port} is already being used.")
               /\ manager' = Returned("none", "error: port in use")
               /\ UNCHANGED <<exposed_services, procs, class_config, instances>>
          ELSE /\ Len(procs) < MaxServices
               /\ int(port) \in Listening => outcome \in {"ImportError", "OSError"}
               /\ \E config \in Overrides :
                     LET made == LabDataService_init(class_config, config)
                     IN  CASE outcome = "ImportError" ->
                                /\ manager' = Returned(outcome, "none")
                                /\ UNCHANGED <<exposed_services, procs>>
                                /\ UNCHANGED <<class_config, instances>>
                           [] outcome = "OSError" ->
                                /\ manager' = Returned(outcome, "none")
                                /\ class_config' = made.cls
                                /\ UNCHANGED <<exposed_services, procs, instances>>
                           [] OTHER ->
                                /\ procs' = Append(procs,
                                      [port |-> int(port),
                                       pc |-> IF outcome = "alive" THEN "alive"
                                                                  ELSE "exited"])
                                /\ instances' = Append(instances,
                                      [overrides |-> config, config |-> made.self])
                                /\ class_config' = made.cls
                                /\ exposed_services' =
                                      [k \in DOMAIN exposed_services \cup {port} |->
                                          IF k = port THEN Len(procs) + 1
                                                      ELSE exposed_services[k]]
                                /\ manager' = Returned("none", "none")
    /\ UNCHANGED <<recorder_vars, data_vars>>

\* variant: the entry is deleted and the process is left running
exposed_remove_service_keep(port) ==
    /\ IF port \in DOMAIN exposed_services
          THEN /\ exposed_services' =
                     [k \in DOMAIN exposed_services \ {port} |-> exposed_services[k]]
               /\ manager' = Returned("none", "none")
               /\ UNCHANGED procs
          ELSE /\ manager' = Returned("none", "error: no service")
               /\ UNCHANGED <<exposed_services, procs>>
    /\ UNCHANGED <<class_config, instances>>
    /\ UNCHANGED <<recorder_vars, data_vars>>

\* ServicePool.remove_service: terminate() if the process is alive, sleep
\* JOIN_TIMEOUT, log the exit code, delete the entry; a KeyError is logged
exposed_remove_service(port) ==
    /\ IF port \in DOMAIN exposed_services
          THEN /\ procs' = [procs EXCEPT ![exposed_services[port]].pc =
                               IF @ = "alive" THEN "terminated" ELSE @]
               /\ exposed_services' =
                     [k \in DOMAIN exposed_services \ {port} |-> exposed_services[k]]
               /\ manager' = Returned("none", "none")
          ELSE /\ manager' = Returned("none", "error: no service")
               /\ UNCHANGED <<exposed_services, procs>>
    /\ UNCHANGED <<class_config, instances>>
    /\ UNCHANGED <<recorder_vars, data_vars>>

\* a DataService process ends by itself
service_exit(i) ==
    /\ procs[i].pc = "alive"
    /\ procs' = [procs EXCEPT ![i].pc = "exited"]
    /\ UNCHANGED <<exposed_services, manager, class_config, instances>>
    /\ UNCHANGED <<recorder_vars, data_vars>>

\* ------------------------------------------------------------------ Next
\* the calls a caller may make from thread t, with polling intervals from I
Control(t, I) ==
    \/ \E n \in Netlocs, i \in I : connect_source(t, n, i)
    \/ connect_source_register(t)
    \/ \E n \in Netlocs : remove_source(t, n)
    \/ remove_source_finish(t)
    \/ \E q \in Queues : set_sink(t, "VoidSink", q)
    \/ set_sink(t, "InfluxDBSink", "rq")
    \/ display_text(t)
    \/ display_text_next(t)

\* callers that pass positive intervals
ControlStep == \E t \in Callers : Control(t, PositiveIntervals)

\* callers that pass any interval
AnyControlStep == \E t \in Callers : Control(t, Intervals)

\* the steps of the worker process of Source s, whose DataService answers
\* a request with one of the outcomes O
pull_process(s, O) ==
    /\ s \in SrcIds
    /\ \/ \E o \in ConnectOutcomes : pull_connect(s, o)
       \/ pull_connected(s)
       \/ pull_exit(s)
       \/ \E o \in O : pull_get_data(s, o)
       \/ pull_put(s)
       \/ pull_count(s)

SourceStep == \E s \in 1..MaxSources : pull_process(s, GetDataOutcomes)

\* the steps of the worker process of Sink k
write_process(k) ==
    /\ k \in SinkIds
    /\ \/ write_start(k)
       \/ write_get(k)
       \/ \E o \in {"ok", "InfluxDBClientError"} : write_points(k, o)

SinkStep == \E k \in 1..MaxSinks : write_process(k)

Next == ControlStep \/ SourceStep \/ SinkStep

Spec == Init /\ [][Next]_vars

FairSpec == Spec /\ WF_vars(SinkStep) /\ WF_vars(SourceStep)

\* The pipeline with one client (served by thread 1) and DataServices that
\* may leave a request unanswered.  Every worker is a process of its own and
\* the operating system gives each of them processor time: weak fairness for
\* each process by itself, and for the server thread that is in
\* remove_source, whose join has a timeout.
FaultControlStep == Control(1, PositiveIntervals)

FaultSourceStep == \E s \in 1..MaxSources : pull_process(s, FaultOutcomes)

FaultNext == FaultControlStep \/ FaultSourceStep \/ SinkStep

FaultSpec == Init /\ [][FaultNext]_vars

FaultFairSpec ==
    /\ FaultSpec
    /\ \A s \in 1..MaxSources : WF_vars(pull_process(s, FaultOutcomes))
    /\ \A k \in 1..MaxSinks : WF_vars(write_process(k))
    /\ \A t \in Callers : WF_vars(remove_source_finish(t))

\* The ServiceManager, its callers and the processes it starts.
ManagerNext ==
    \/ \E port \in Ports, outcome \in AddOutcomes : exposed_add_service(port, outcome)
    \/ \E port \in Ports : exposed_remove_service(port)
    \/ \E i \in ProcIds : service_exit(i)

ManagerSpec == Init /\ [][ManagerNext]_vars

\* The pipeline with callers that pass any interval to connect_source.
IntervalNext == AnyControlStep \/ SourceStep \/ SinkStep

IntervalSpec == Init /\ [][IntervalNext]_vars

\* One poll of a DataService, for every dict it may produce, every set of
\* requested fields and every measurement name.
DataInit ==
    /\ InitRecorder
    /\ InitManager
    /\ call = NoCall
    /\ nl = NoNl
    /\ poll \in {NewPoll(api, produced, requested, measurement) :
                    api \in APIs, produced \in FieldsDicts,
                    requested \in SUBSET FieldNames, measurement \in Measurements}

DataNext == poll_get_data \/ poll_put

DataSpec == DataInit /\ [][DataNext]_vars

\* One connect_source call on a RecorderService, for every pair of values a
\* client may pass after the Netloc, up to the end of the first loop pass.
CallInit ==
    /\ InitRecorder
    /\ service = "RecorderService"
    /\ InitManager
    /\ poll = NoPoll
    /\ nl = NoNl
    /\ call \in {NewCall(<<n, a, b>>) : n \in Netlocs, a \in PyValues, b \in PyValues}

CallNext == call_connect_source \/ call_put \/ call_sleep

CallSpec == CallInit /\ [][CallNext]_vars

\* One Netloc of either class, printed, parsed by either parser and used as
\* a dict key.
NetlocInit ==
    /\ InitRecorder
    /\ InitManager
    /\ poll = NoPoll
    /\ call = NoCall
    /\ nl \in {NewNl(Netloc(cls, host, port), parser, input) :
                  cls \in NetlocClasses, host \in Hosts, port \in PortNumbers,
                  parser \in Parsers, input \in Inputs}

NetlocNext == netloc_str \/ netloc_parse \/ netloc_key

NetlocSpec == NetlocInit /\ [][NetlocNext]_vars

\* ======================================================================
\* Properties
\* ======================================================================

Registered(s) == \E n \in DOMAIN connected_sources : connected_sources[n] = s

\* C1 (as stated): a connect_source(n) that finds n in the registry fails
\* with AlreadyConnected raised to the caller, starts no worker and leaves
\* the registry as it was.
C1_RejectsWithAlreadyConnected ==
    [][\A t \in Callers, n \in Netlocs, i \in Intervals :
          (n \in DOMAIN connected_sources /\ connect_source(t, n, i))
             => /\ threads'[t].raised = "AlreadyConnected"
                /\ connected_sources' = connected_sources
                /\ sources' = sources]_vars

\* C1 (amended): a connect_source(n) that finds n in the registry logs the
\* error "already connected" and returns None to the caller: nothing is
\* raised, no Source is constructed or started, and the registry still maps
\* n to the original Source.
C1_RejectsByLogging ==
    [][\A t \in Callers, n \in Netlocs, i \in Intervals :
          (n \in DOMAIN connected_sources /\ connect_source(t, n, i))
             => /\ threads'[t] = Idle("none", "error: already connected")
                /\ connected_sources' = connected_sources
                /\ sources' = sources]_vars

C1_Witness ==
    \E t \in Callers :
        /\ threads[t].log = "error: already connected"
        /\ \E n \in DOMAIN connected_sources : SourceAlive(connected_sources[n])

\* C2 (as stated): a remove_source(n) on a Netloc that is no key of the
\* registry fails with NotConnected raised to the caller and leaves registry,
\* Sources, Sink and queue unchanged.
C2_RejectsWithNotConnected ==
    [][\A t \in Callers, n \in Netlocs :
          (n \notin DOMAIN connected_sources /\ remove_source(t, n))
             => /\ threads'[t].raised = "NotConnected"
                /\ UNCHANGED <<connected_sources, sources, sink, sinks, queue>>]_vars

\* C2 (amended): a remove_source(n) on a Netloc that is no key of the
\* registry logs the error "No Puller pulling from n" and returns None to
\* the caller: nothing is raised, and registry, Sources, Sink and queue are
\* unchanged.
C2_RejectsByLogging ==
    [][\A t \in Callers, n \in Netlocs :
          (n \notin DOMAIN connected_sources /\ remove_source(t, n))
             => /\ threads'[t] = Idle("none", "error: no puller")
                /\ UNCHANGED <<connected_sources, sources, sink, sinks, queue>>]_vars

C2_Witness ==
    \E t \in Callers :
        /\ threads[t].log = "error: no puller"
        /\ threads[t].pc = "idle"
        /\ \E s \in SrcIds : SourceAlive(s)

\* C3: control-plane calls behave as if executed one at a time: every
\* Source worker that is alive is either registered or in the hands of the
\* call that is starting or stopping it.
C3_NoUnregisteredWorker ==
    \A s \in SrcIds :
        SourceAlive(s) =>
            \/ Registered(s)
            \/ \E t \in Callers : threads[t].pc \in {"register", "join"}
                                  /\ threads[t].s = s

\* C4: no two Sink workers are alive on the same queue at the same time.
C4_OneSinkPerQueue ==
    \A j, k \in SinkIds :
        (j # k /\ SinkAlive(j) /\ SinkAlive(k)) => sinks[j].queue # sinks[k].queue

\* C5: the Sink that set_sink started reads the queue of the control plane,
\* the one every Source writes to.
C5_SinkReadsRecorderQueue ==
    sink # 0 => sinks[sink].queue = "rq"

\* C6: the counter of a Source is -1 until its worker has connected, is 0
\* right after the connection, and no step ever decreases it.
C6_SourceCounter ==
    /\ [](\A s \in SrcIds :
            /\ sources[s].pc \in {"start", "connected"} => sources[s].counter = -1
            /\ sources[s].pc \in {"loop", "fetched", "put"} => sources[s].counter >= 0)
    /\ [][\A s \in SrcIds :
            /\ sources'[s].counter >= sources[s].counter
            /\ (sources[s].pc = "connected" /\ sources'[s].pc = "loop")
                  => sources'[s].counter = 0
            /\ sources'[s].counter # sources[s].counter
                  => sources[s].pc \in {"connected", "put"}]_vars

C6_Witness ==
    \E s \in SrcIds : sources[s].counter >= 1 /\ sources[s].pc = "loop"

\* C7: a Sink whose write of one batch raised InfluxDBClientError is still
\* running, takes the next batch from its queue, and counts that batch when
\* its write succeeds.
C7_SinkResilience ==
    /\ [](\A k \in SinkIds :
            sinks[k].last = "InfluxDBClientError"
               => /\ sinks[k].pc \in {"get", "write"}
                  /\ (sinks[k].pc = "get" /\ queue[sinks[k].queue] # <<>>)
                        => ENABLED write_get(k))
    /\ [][\A k \in SinkIds :
            (sinks[k].last = "InfluxDBClientError" /\ sinks[k].pc = "write"
                /\ sinks'[k].pc = "get" /\ sinks'[k].last = "ok")
               => sinks'[k].counter = sinks[k].counter + 1]_vars

C7_Witness ==
    \E k \in SinkIds :
        /\ sinks[k].last = "ok"
        /\ sinks[k].persisted = 1
        /\ sinks[k].counter = 2

\* C8: the counter of a Sink is -1 until its worker has started and from
\* then on equals the number of batches that were persisted.
C8_SinkCountsPersisted ==
    \A k \in SinkIds :
        /\ sinks[k].pc = "start" => sinks[k].counter = -1
        /\ sinks[k].counter >= 0 => sinks[k].counter = sinks[k].persisted

\* C9: when remove_source(n) on a registered Netloc returns, n is no key of
\* the registry, whether the worker left by itself or was terminated, and
\* every other entry is as before.
C9_RemoveDeletesEntry ==
    [][\A t \in Callers :
          (threads[t].pc = "join" /\ threads'[t].pc = "idle")
             => /\ threads[t].n \notin DOMAIN connected_sources'
                /\ DOMAIN connected_sources' = DOMAIN connected_sources \ {threads[t].n}
                /\ \A m \in DOMAIN connected_sources' :
                      connected_sources'[m] = connected_sources[m]]_vars

C9_Witness ==
    \E s \in SrcIds :
        /\ sources[s].pc = "killed"
        /\ sources[s].netloc \notin DOMAIN connected_sources
        /\ DOMAIN connected_sources # {}

\* C10: when remove_source(n) on a registered Netloc returns, the worker it
\* looked up is not alive; a worker that is not alive stays so and puts
\* nothing on the queue; and while no Source worker is alive the counter of
\* a Sink can grow by no more than the batches already waiting for it, so
\* that the Sink comes to rest unless a new Source is connected.
AllSourcesStopped == SrcIds # {} /\ \A s \in SrcIds : ~SourceAlive(s)

Waiting(k) ==
    sinks[k].counter + Len(queue[sinks[k].queue])
       + (IF sinks[k].pc = "write" THEN 1 ELSE 0)
       + (IF sinks[k].pc = "start" THEN 1 ELSE 0)

SinkAtRest(k) ==
    \/ sinks[k].pc = "crashed"
    \/ sinks[k].pc = "get" /\ queue[sinks[k].queue] = <<>>

C10_StoppedSourceIsSilent ==
    /\ [][\A t \in Callers :
            (threads[t].pc = "join" /\ threads'[t].pc = "idle")
               => sources'[threads[t].s].pc \in Exited]_vars
    /\ [][\A s \in SrcIds :
            ~SourceAlive(s) => /\ sources'[s].pc \in Exited
                               /\ sources'[s].enqueued = sources[s].enqueued]_vars
    /\ [][AllSourcesStopped =>
            \A k \in SinkIds : Waiting(k)' <= Waiting(k)]_vars
    /\ (AllSourcesStopped ~>
            (~AllSourcesStopped \/ \A k \in SinkIds : SinkAtRest(k)))

C10_Witness ==
    /\ \E s \in SrcIds : sources[s].pc = "killed" /\ sources[s].enqueued > 0
    /\ AllSourcesStopped
    /\ connected_sources = <<>>
    /\ \E k \in SinkIds : sinks[k].counter > 0 /\ SinkAtRest(k)

\* what a poll of P with the requested fields R is to return: P when R is
\* empty, otherwise P restricted to the keys in both
Restricted(P, R) == IF R = {} THEN P ELSE [k \in DOMAIN P \cap R |-> P[k]]

\* the fields of the reply the worker holds
ReplyFields == IF poll.api = "services" THEN poll.data["fields"] ELSE poll.data

\* C11: for every produced dict P and every requested set R, get_data
\* returns P when R is empty and otherwise P restricted to the keys in both;
\* a requested field that is not produced is absent and raises nothing.
C11_GetDataRestricts ==
    poll.pc \in {"got", "put", "crashed"}
       => /\ poll.raised = "none"
          /\ ReplyFields = Restricted(poll.produced, poll.requested)

\* the Points on the queue: a Source puts a list holding one dict, a Puller
\* one Message
Points ==
    {IF poll.api = "services" THEN queue["rq"][i][1] ELSE queue["rq"][i] :
        i \in 1..Len(queue["rq"])}

\* C12: every Point a worker with measurement m and requested fields R puts
\* on the queue after polling a DataService that produced P carries the
\* measurement m and, as its fields, exactly P restricted as get_data is to
\* restrict it: no key more, no key less, every value as produced.
C12_RoundTrip ==
    \A pt \in Points :
        /\ pt["measurement"] = poll.measurement
        /\ pt["fields"] = Restricted(poll.produced, poll.requested)
        /\ DOMAIN pt["fields"] \subseteq DOMAIN poll.produced

C12_Witness ==
    /\ poll.api = "services"
    /\ poll.produced = [a |-> 1, b |-> 2]
    /\ poll.requested = {"a"}
    /\ poll.measurement = "test"
    /\ \E pt \in Points : pt["fields"] = [a |-> 1]

\* C18: every Point on the queue has a measurement name that is not empty
\* and a fields dict that is not empty, whatever the DataService produced
\* and whatever fields were requested.
C18_PointsNonEmpty ==
    \A pt \in Points :
        /\ pt["measurement"] # ""
        /\ DOMAIN pt["fields"] # {}

\* C13: a Source worker whose connection is refused ends at once with its
\* counter at -1 and nothing enqueued, and from then on nothing about it
\* changes: it does not connect again, it enqueues nothing, and its counter
\* stays at -1.
C13_RefusedIsTerminal ==
    /\ [][\A s \in SrcIds :
            pull_connect(s, "ConnectionRefusedError")
               => /\ sources'[s].pc = "exited"
                  /\ sources'[s].counter = -1
                  /\ sources'[s].enqueued = 0]_vars
    /\ [][\A s \in SrcIds :
            (sources[s].pc = "exited" /\ sources[s].counter = -1)
               => /\ sources'[s] = sources[s]
                  /\ \A i \in 1..Len(queue'["rq"]) : queue'["rq"][i][1] = s
                        => \E j \in 1..Len(queue["rq"]) :
                              queue["rq"][j] = queue'["rq"][i]]_vars

C13_Witness ==
    \E s \in SrcIds :
        /\ sources[s].pc = "exited"
        /\ sources[s].counter = -1
        /\ Registered(s)
        /\ \E r \in SrcIds : r # s /\ sources[r].enqueued > 0

\* C14: when get_data raises EOFError the worker sets its stop event and
\* neither enqueues nor counts; nothing else changes, so the control plane
\* and every other Source go on as before; and a worker at the loop test
\* with its stop event set never polls again: it can only leave.
C14_PeerClosedStopsSource ==
    /\ [][\A s \in SrcIds :
            pull_get_data(s, "EOFError")
               => /\ sources'[s].stop_event
                  /\ sources'[s].counter = sources[s].counter
                  /\ sources'[s].enqueued = sources[s].enqueued
                  /\ \A r \in SrcIds \ {s} : sources'[r] = sources[r]
                  /\ UNCHANGED <<connected_sources, sink, sinks, queue, threads>>]_vars
    /\ [][\A s \in SrcIds :
            (sources[s].stop_event /\ sources[s].pc = "loop")
               => /\ sources'[s].pc \in {"loop"} \cup Exited
                  /\ sources'[s].stop_event
                  /\ sources'[s].counter = sources[s].counter
                  /\ sources'[s].enqueued = sources[s].enqueued]_vars
    /\ [](\A s \in SrcIds :
            (sources[s].stop_event /\ sources[s].pc = "loop")
               => /\ \A o \in GetDataOutcomes : ~ENABLED pull_get_data(s, o)
                  /\ ENABLED pull_exit(s))

C14_Witness ==
    \E s \in SrcIds :
        /\ sources[s].pc = "exited"
        /\ sources[s].counter >= 1
        /\ Registered(s)
        /\ \A t \in Callers : threads[t].pc = "idle"
        /\ \E r \in SrcIds : r # s /\ sources[r].pc = "put"

\* a Source whose worker left on a connection fault (connection refused, or
\* closed by the peer): it has exited and no remove_source call is joining it
Faulted(s) ==
    /\ sources[s].pc = "exited"
    /\ \A t \in Callers : ~(threads[t].pc = "join" /\ threads[t].s = s)

\* C15: a Netloc whose Source left on a connection fault is free again: a
\* connect_source for it is accepted and starts a new Source.
C15_FaultFreesNetloc ==
    [][\A t \in Callers, n \in Netlocs, i \in Intervals :
          (/\ n \in DOMAIN connected_sources
           /\ Faulted(connected_sources[n])
           /\ connect_source(t, n, i))
             => /\ threads'[t].pc = "register"
                /\ Len(sources') = Len(sources) + 1]_vars

\* C16: a status call that runs while other callers connect and remove
\* Sources never fails because the registry changed under it, and every
\* Source it lists is a complete one, constructed and started.
C16_StatusSnapshot ==
    \A t \in Callers :
        /\ threads[t].raised # "RuntimeError"
        /\ threads[t].pc = "status"
              => \A s \in threads[t].listed : s \in SrcIds /\ sources[s].pc # "new"

\* C17: a status call changes neither the registry, the sink, the queues,
\* nor any counter or stop event, and while it is in progress every worker
\* that is in the middle of an iteration can still take its next step.
C17_StatusReadOnly ==
    /\ [][\A t \in Callers :
            (display_text(t) \/ display_text_next(t))
               => UNCHANGED <<connected_sources, sink, sinks, queue, sources>>]_vars
    /\ [](\A t \in Callers :
            threads[t].pc = "status"
               => /\ \A s \in SrcIds :
                        /\ sources[s].pc = "fetched" => ENABLED pull_put(s)
                        /\ sources[s].pc = "put" => ENABLED pull_count(s)
                  /\ \A k \in SinkIds :
                        sinks[k].pc = "write" => ENABLED write_points(k, "ok"))

C17_Witness ==
    \E t \in Callers :
        /\ threads[t].pc = "status"
        /\ \E s \in threads[t].listed : sources[s].pc = "put"
        /\ \E k \in SinkIds : sinks[k].pc = "write"

\* C19: connect_source validates the interval: no Source with an interval
\* that is not positive is ever constructed, started or registered.
C19_IntervalValidated ==
    \A s \in SrcIds : sources[s].interval > 0

\* C20 (as stated): add_service on a port that is a key of the registry
\* fails with PortInUse returned to the caller, starts no process and leaves
\* the registry unchanged; on any other port (the service being one that can
\* be loaded and bound) it starts one process bound to the port and records
\* it under the port.
C20_AddFailsWithPortInUse ==
    [][\A port \in Ports, outcome \in AddOutcomes :
          exposed_add_service(port, outcome)
             => IF port \in DOMAIN exposed_services
                   THEN /\ manager'.raised = "PortInUse"
                        /\ UNCHANGED <<exposed_services, procs>>
                   ELSE manager'.raised = "none"
                           => /\ Len(procs') = Len(procs) + 1
                              /\ procs'[Len(procs')].port = int(port)
                              /\ exposed_services'[port] = Len(procs')]_vars

\* C20 (amended): add_service on a port that is a key of the registry logs
\* the error "Port is already being used" and returns None to the caller:
\* nothing is raised, no process is started and the registry is unchanged.
\* On any other port it either passes on the exception raised while loading
\* the service or binding the socket, with no process started and the
\* registry unchanged, or starts exactly one process bound to int(port) and
\* records it under the port, alive or not, leaving the other entries alone.
C20_AddRejectsByLogging ==
    [][\A port \in Ports, outcome \in AddOutcomes :
          exposed_add_service(port, outcome)
             => IF port \in DOMAIN exposed_services
                   THEN /\ manager' = Returned("none", "error: port in use")
                        /\ UNCHANGED <<exposed_services, procs>>
                   ELSE IF manager'.raised # "none"
                           THEN UNCHANGED <<exposed_services, procs>>
                           ELSE /\ Len(procs') = Len(procs) + 1
                                /\ \A i \in ProcIds : procs'[i] = procs[i]
                                /\ procs'[Len(procs')].port = int(port)
                                /\ DOMAIN exposed_services' =
                                      DOMAIN exposed_services \cup {port}
                                /\ exposed_services'[port] = Len(procs')
                                /\ \A k \in DOMAIN exposed_services :
                                      exposed_services'[k] = exposed_services[k]]_vars

C20_Witness ==
    /\ manager.log = "error: port in use"
    /\ \E port \in DOMAIN exposed_services : procs[exposed_services[port]].pc = "alive"
    /\ Len(procs) = 2

Faulty(s) == sources[s].pc \in {"hung", "crashed"}

Running(s) == sources[s].pc \in {"start", "connected", "loop", "fetched", "put"}

C22_FaultIsolation ==
    /\ [][\A s \in SrcIds :
            (~Faulty(s) /\ Faulty(s)')
               => /\ \A x \in SrcIds \ {s} : sources'[x] = sources[x]
                  /\ UNCHANGED <<sinks, queue, connected_sources, sink, threads>>]_vars
    /\ [][\A k \in SinkIds :
            (/\ sinks[k].pc = "write"
             /\ sinks'[k] # sinks[k]
             /\ sinks'[k].last = "InfluxDBClientError")
               => /\ sinks'[k].pc = "get"
                  /\ \A x \in SinkIds \ {k} : sinks'[x] = sinks[x]
                  /\ UNCHANGED <<sources, queue, connected_sources, sink, threads>>]_vars
    /\ [](\A s \in SrcIds, x \in SrcIds :
            (Faulty(s) /\ Running(x)) => ENABLED pull_process(x, FaultOutcomes))
    /\ \A x \in 1..MaxSources :
          (/\ x \in SrcIds
           /\ \E s \in SrcIds : Faulty(s)
           /\ sources[x].pc = "fetched")
             ~> (x \in SrcIds /\ sources[x].pc \in {"put", "killed"})
    /\ \A k \in 1..MaxSinks :
          (/\ k \in SinkIds
           /\ \E s \in SrcIds : Faulty(s)
           /\ sinks[k].pc = "get"
           /\ queue[sinks[k].queue] # <<>>)
             ~> (k \in SinkIds /\ (sinks[k].pc = "write" \/ queue[sinks[k].queue] = <<>>))

C22_Witness ==
    \E s \in SrcIds, x \in SrcIds, k \in SinkIds :
        /\ sources[s].pc = "hung"
        /\ sources[x].pc = "loop"
        /\ sources[x].enqueued >= 1
        /\ sinks[k].counter >= 1
        /\ sinks[k].last = "InfluxDBClientError"

\* C23: the batches of one Source leave a queue in the order in which that
\* Source put them.  The batches of Source s that wait in a queue are, in
\* queue order, its latest puts with consecutive ranks, whatever other
\* Sources have put in between; and the batch a Sink worker takes has a
\* lower rank than every batch of the same Source that stays behind.
OfSource(q, s) == SelectSeq(q, LAMBDA b : b[1] = s)

C24_ArgumentOrder ==
    (/\ call.pc \notin {"none", "called"}
     /\ call.args[2].type \in {"float", "int"}
     /\ call.args[3].type = "str")
       => /\ call.source.interval = call.args[2]
          /\ call.source.measurement = call.args[3]
          /\ call.pc \in {"put", "loop", "crashed"}
                => call.point["measurement"] = call.args[3]
          /\ call.pc # "crashed"

\* C25: every DataService instance made without overrides has the default
\* configuration of its class, whatever instances were made before it.
C25_DefaultsKept ==
    \A i \in 1..Len(instances) :
        instances[i].overrides = <<>>
           => instances[i].config = ConstNumberService_config

\* C26: remove_source returns whatever its worker does.  The rest of the
\* handler after the join never waits for the worker; run on a worker that
\* is blocked in a request its DataService does not answer, it terminates
\* the worker, deletes the entry and returns None to the caller; and a
\* handler that has set the stop event does return.
C26_RemoveAlwaysReturns ==
    /\ [](\A t \in Callers :
            threads[t].pc = "join" => ENABLED remove_source_finish(t))
    /\ [][\A t \in Callers :
            (/\ threads[t].pc = "join"
             /\ threads'[t].pc = "idle"
             /\ sources[threads[t].s].pc = "hung")
               => /\ sources'[threads[t].s].pc = "killed"
                  /\ threads[t].n \notin DOMAIN connected_sources'
                  /\ threads'[t].raised = "none"]_vars
    /\ \A t \in Callers : (threads[t].pc = "join") ~> (threads[t].pc = "idle")

C26_Witness ==
    \E t \in Callers :
        /\ threads[t].pc = "join"
        /\ sources[threads[t].s].pc = "hung"
        /\ sources[threads[t].s].stop_event
        /\ sources[threads[t].s].enqueued >= 1

\* C27: a batch taken from the queue is written once.  The write step of
\* a Sink worker, failed or not, leaves the worker without the batch and at
\* its next get, and leaves every queue as it was; the batch taken after a
\* failed write is the head of the queue; and every batch put so far is
\* either waiting in the queue, or held by one worker, or has had its one
\* write attempt.
Attempts(k) == IF sinks[k].counter < 0 THEN 0 ELSE sinks[k].counter

RECURSIVE SumAttempts(_)
SumAttempts(k) == IF k = 0 THEN 0 ELSE Attempts(k) + SumAttempts(k - 1)

Held == Cardinality({k \in SinkIds : sinks[k].pc = "write"})

RECURSIVE SumEnqueued(_)
SumEnqueued(s) == IF s = 0 THEN 0 ELSE sources[s].enqueued + SumEnqueued(s - 1)

C27_OneAttempt ==
    /\ [][\A k \in SinkIds :
            (sinks[k].pc = "write" /\ sinks'[k] # sinks[k])
               => /\ sinks'[k].pc = "get"
                  /\ sinks'[k].data = <<>>
                  /\ queue' = queue]_vars
    /\ [][\A k \in SinkIds :
            (/\ sinks[k].last = "InfluxDBClientError"
             /\ sinks[k].pc = "get"
             /\ sinks'[k].pc = "write")
               => /\ sinks'[k].data = Head(queue[sinks[k].queue])
                  /\ queue'[sinks[k].queue] = Tail(queue[sinks[k].queue])]_vars
    /\ [](SumEnqueued(Len(sources)) =
             Len(queue["rq"]) + Len(queue["cq"]) + Held + SumAttempts(Len(sinks)))

C27_Witness ==
    \E k \in SinkIds :
        /\ sinks[k].last = "InfluxDBClientError"
        /\ sinks[k].persisted = 0
        /\ sinks[k].pc = "write"
        /\ sinks[k].data[2] = 2
        /\ queue["rq"] = <<>>

C29_StatusNeverRaises ==
    \A t \in Callers : threads[t].raised # "AttributeError"

\* a Source made for Netloc n has ended by itself and n is not registered
EndedAndGone(n) ==
    /\ n \notin DOMAIN connected_sources
    /\ \E s \in SrcIds : sources[s].netloc = n /\ sources[s].pc \in {"exited", "crashed"}

\* C30 (as stated): remove_source on a Source whose worker has ended by
\* itself terminates nothing, keeps the exit status of the worker and
\* deletes the entry; a further remove_source for that Netloc fails with
\* NotConnected raised to the caller and changes no Source.
C30_SecondRemoveFailsWithNotConnected ==
    [][\A t \in Callers :
          /\ (/\ threads[t].pc = "join"
              /\ threads'[t].pc = "idle"
              /\ ~SourceAlive(threads[t].s))
                => /\ sources' = sources
                   /\ threads[t].n \notin DOMAIN connected_sources'
          /\ \A n \in Netlocs :
                (EndedAndGone(n) /\ remove_source(t, n))
                   => /\ threads'[t].raised = "NotConnected"
                      /\ UNCHANGED <<sources, connected_sources>>]_vars

\* C30 (amended): remove_source on a Source whose worker has ended by
\* itself sets the stop event and changes nothing else of the worker: it
\* terminates nothing, the worker keeps its exit status, and the entry is
\* deleted.  A further remove_source for that Netloc logs the error "No
\* Puller pulling from n" and returns None to the caller: nothing is raised
\* and no Source and no entry is changed.
C30_StopIsIdempotent ==
    [][\A t \in Callers :
          /\ \A n \in DOMAIN connected_sources :
                (remove_source(t, n) /\ ~SourceAlive(connected_sources[n]))
                   => sources' = [sources EXCEPT
                                     ![connected_sources[n]].stop_event = TRUE]
          /\ (/\ threads[t].pc = "join"
              /\ threads'[t].pc = "idle"
              /\ ~SourceAlive(threads[t].s))
                => /\ sources' = sources
                   /\ threads[t].n \notin DOMAIN connected_sources'
                   /\ threads'[t].raised = "none"
          /\ \A n \in Netlocs :
                (EndedAndGone(n) /\ remove_source(t, n))
                   => /\ threads'[t] = Idle("none", "error: no puller")
                      /\ UNCHANGED <<sources, connected_sources>>]_vars

C30_Witness ==
    /\ calls = 3
    /\ Len(sources) = 1
    /\ sources[1].pc = "exited"
    /\ sources[1].counter = -1
    /\ sources[1].stop_event
    /\ EndedAndGone(sources[1].netloc)
    /\ \E t \in Callers : threads[t] = Idle("none", "error: no puller")

\* C31: the string form of a Netloc is host ":" port; parsing that string
\* gives a Netloc equal to it, parsing its port alone (as text or as an
\* int) gives the Netloc of host "localhost" with that port; and a Netloc
\* can be a key of the registry.
C31_NetlocCanonical ==
    /\ nl.pc \in {"printed", "parsed", "keyed"}
          => nl.text = nl.n.host \o <<":">> \o <<ToString(nl.n.port)>>
    /\ nl.pc \in {"parsed", "keyed"}
          => /\ nl.parsed.raised = "none"
             /\ IF nl.input = "str"
                   THEN Netloc_eq(nl.parsed.value, nl.n)
                   ELSE /\ nl.parsed.value.host = <<"localhost">>
                        /\ nl.parsed.value.port = nl.n.port
    /\ nl.pc = "keyed" => nl.key = "ok"

\* C32: once the stop event of a Source is set it stays set; its worker
\* starts no further request, so the only batch it can still put is the one
\* it had fetched when the event was set; at the loop test it can only
\* leave; and it does come to an end, by leaving at the loop test or, when
\* it is blocked in a request, by the terminate() of remove_source.
C32_AtMostOneMoreEnqueue ==
    /\ [][\A s \in SrcIds :
            sources[s].stop_event
               => /\ sources'[s].stop_event
                  /\ sources'[s].pc = "fetched" => sources[s].pc = "fetched"
                  /\ sources'[s].enqueued # sources[s].enqueued
                        => /\ sources[s].pc = "fetched"
                           /\ sources'[s].enqueued = sources[s].enqueued + 1
                  /\ (sources[s].pc = "loop" /\ sources'[s].pc # "loop")
                        => sources'[s].pc \in {"exited", "killed"}]_vars
    /\ \A s \in 1..MaxSources :
          (s \in SrcIds /\ sources[s].stop_event)
             ~> (s \in SrcIds /\ ~SourceAlive(s))

C32_Witness ==
    \E s \in SrcIds, t \in Callers :
        /\ threads[t].pc = "join"
        /\ threads[t].s = s
        /\ sources[s].stop_event
        /\ sources[s].pc = "exited"
        /\ sources[s].enqueued = 2
        /\ sources[s].counter = 2

\* C33: while the counter c of a Source is not negative, the number E of
\* batches it has put is c or c + 1, and it is c + 1 only for a worker that
\* has put and not yet incremented, or that was terminated at that point;
\* before the connection (c = -1) nothing has been put.
C33_CounterTracksEnqueues ==
    \A s \in SrcIds :
        LET c == sources[s].counter
            E == sources[s].enqueued
        IN  /\ c >= 0 => (c <= E /\ E <= c + 1)
            /\ (c >= 0 /\ E = c + 1) => sources[s].pc \in {"put", "killed"}
            /\ c < 0 => (c = -1 /\ E = 0)

C33_Witness ==
    \E s \in SrcIds :
        /\ sources[s].pc = "killed"
        /\ sources[s].counter = 1
        /\ sources[s].enqueued = 2

\* C34: a Source whose worker process has come to an end, by leaving its
\* loop, by an exception that nothing handles, or by terminate(), has its
\* stop event set.
C34_ExitedWorkerIsStopped ==
    \A s \in SrcIds : sources[s].pc \in Exited => sources[s].stop_event

\* C35: conservation on the queue of the recorder.  The batches put by all
\* Sources are those still in the queue and those taken from it by the Sink
\* workers (written, or held for the write); the counter of a Sink worker
\* is at most the number of batches put; and no batch is in two places: the
\* batches in the queue and the batches held are pairwise distinct, and each
\* is a batch its Source has put.
Taken(k) ==
    IF sinks[k].queue = "rq"
       THEN Attempts(k) + (IF sinks[k].pc = "write" THEN 1 ELSE 0)
       ELSE 0

RECURSIVE SumTaken(_)
SumTaken(k) == IF k = 0 THEN 0 ELSE Taken(k) + SumTaken(k - 1)

InFlight ==
    queue["rq"] \o
    SelectSeq([k \in 1..Len(sinks) |->
                  IF sinks[k].pc = "write" THEN sinks[k].data ELSE <<>>],
              LAMBDA b : b # <<>>)

C35_QueueConservation ==
    /\ SumEnqueued(Len(sources)) = Len(queue["rq"]) + SumTaken(Len(sinks))
    /\ \A k \in SinkIds : Attempts(k) <= SumEnqueued(Len(sources))
    /\ \A i, j \in 1..Len(InFlight) : i # j => InFlight[i] # InFlight[j]
    /\ \A i \in 1..Len(InFlight) :
          /\ InFlight[i][1] \in SrcIds
          /\ InFlight[i][2] \in 1..sources[InFlight[i][1]].enqueued

C35_Witness ==
    \E k \in SinkIds :
        /\ sinks[k].queue = "rq"
        /\ sinks[k].counter = 1
        /\ sinks[k].pc = "get"
        /\ Len(queue["rq"]) = 1
        /\ SumEnqueued(Len(sources)) = 2

\* C36: connect_source before set_sink loses no batch.  When the first Sink
\* is set while batches put by Sources connected earlier wait in the queue
\* of the recorder, the queue is left as it is and the worker that is
\* started is one that takes its batches from that queue.
C36_FirstSinkDrainsQueue ==
    [][(sink = 0 /\ sink' # 0 /\ queue["rq"] # <<>>)
          => /\ queue' = queue
             /\ sinks'[sink'].queue = "rq"]_vars

\* C37: a Netloc can be connected again after its remove_source has
\* returned.  The connect_source for a Netloc that is no key of the registry
\* and whose earlier Source has ended is accepted, with no error logged; it
\* makes a new Source with counter -1, a clear stop event, nothing put and a
\* worker that is starting, and leaves every earlier Source as it is; and
\* the Source a call registers under the Netloc is the one that call made.
Disconnected(n) ==
    /\ n \notin DOMAIN connected_sources
    /\ \A t \in Callers :
          threads[t].pc \in {"register", "join"} => threads[t].n # n
    /\ \E s \in SrcIds : sources[s].netloc = n /\ sources[s].stop_event

C37_ReconnectIsFresh ==
    [][\A t \in Callers :
          /\ \A n \in Netlocs :
                (Disconnected(n) /\ \E i \in Intervals : connect_source(t, n, i))
                   => /\ threads'[t].pc = "register"
                      /\ threads'[t].raised = "none"
                      /\ threads'[t].log = "none"
                      /\ threads'[t].s = Len(sources) + 1
                      /\ Len(sources') = Len(sources) + 1
                      /\ sources'[Len(sources')].netloc = n
                      /\ sources'[Len(sources')].counter = -1
                      /\ sources'[Len(sources')].enqueued = 0
                      /\ ~sources'[Len(sources')].stop_event
                      /\ sources'[Len(sources')].pc = "start"
                      /\ \A s \in SrcIds : sources'[s] = sources[s]
          /\ (threads[t].pc = "register" /\ threads'[t].pc = "idle")
                => /\ connected_sources'[threads[t].n] = threads[t].s
                   /\ sources[threads[t].s].netloc = threads[t].n
                   /\ sources' = sources]_vars

C37_Witness ==
    \E n \in DOMAIN connected_sources :
        /\ connected_sources[n] = 2
        /\ sources[1].netloc = n
        /\ sources[1].stop_event
        /\ sources[1].pc = "exited"
        /\ sources[1].counter = 1
        /\ sources[2].counter = -1
        /\ ~sources[2].stop_event

\* C38: the registry of the manager is keyed by the port number, however
\* the port is passed.  An add_service for a port whose number is that of a
\* key, passed as text or as an int, is rejected as a duplicate with nothing
\* started and nothing recorded; a remove_service for such a port leaves no
\* entry of that number.
C38_KeyedByPortNumber ==
    [][\A port \in Ports :
          LET known == \E k \in DOMAIN exposed_services : int(k) = int(port)
          IN  /\ \A outcome \in AddOutcomes :
                    (known /\ exposed_add_service(port, outcome))
                       => /\ manager' = Returned("none", "error: port in use")
                          /\ UNCHANGED <<exposed_services, procs>>
              /\ (known /\ exposed_remove_service(port))
                    => \A k \in DOMAIN exposed_services' : int(k) # int(port)]_vars

\* C39: every entry of the registry of the manager is for a process that
\* was alive right after its start.  An add_service that returns normally
\* with a new entry has a process that is alive; when the process is not
\* alive after start, no entry is recorded for the port.
C39_OnlyStartedServicesRecorded ==
    [][\A port \in Ports, outcome \in AddOutcomes :
          (exposed_add_service(port, outcome) /\ port \notin DOMAIN exposed_services)
             => \A k \in DOMAIN exposed_services' \ DOMAIN exposed_services :
                   procs'[exposed_services'[k]].pc = "alive"]_vars

====
